---- MODULE Spec2Model ----
(***************************************************************************)
(* Model of pysftpserver/proxystorage.py: SFTPServerProxyStorage, the      *)
(* storage backend that forwards every request to a remote SFTP server     *)
(* through a Paramiko client, and exception_wrapper, which turns the       *)
(* IOError raised by Paramiko into OSError.                                *)
(*                                                                         *)
(* The remote client and the remote file handles are the environment: a    *)
(* remote call either answers from the modelled remote state or fails with *)
(* an exception the environment injects.                                   *)
(***************************************************************************)
EXTENDS Integers, Sequences, FiniteSets, TLC

VARIABLES
    py3,      \* the interpreter: TRUE when IOError is an alias of OSError (Python 3)
    phase,    \* "idle": waiting for a request; "done": a handler has returned or raised
    req,      \* the request being served: the handler's name and arguments
    calls,    \* the remote calls the handler issued, in order, each with its outcome
    result,   \* what the handler gave its caller: a value or an exception
    attrs,    \* remote attributes of the regular file the paths and the handle name
    content,  \* remote content of the file behind the handle
    pos,      \* current position of the remote handle
    closed,   \* whether the remote handle has been closed
    stream,   \* the generator returned by opendir
    lastWrite,\* what the latest write on the handle returned: "none", "true", "false"
    pc,       \* position of each concurrent worker inside write/read
    job       \* arguments and outcome of each concurrent worker's call

vars == <<py3, phase, req, calls, result, attrs, content, pos, closed, stream,
          lastWrite, pc, job>>

-----------------------------------------------------------------------------
(* Exceptions *)

ENOENT == 2
EACCES == 13

NoExc == [fam |-> "none", errno |-> 0]

IOErrorOf(code) == [fam |-> "IOError", errno |-> code]

\* What the remote client raises natively: IOError for SFTP status errors,
\* and exceptions outside the IOError family (a dropped connection).
NativeExceptions ==
    {IOErrorOf(ENOENT), IOErrorOf(EACCES), [fam |-> "SSHException", errno |-> 0]}

\* The environment's choice for one remote call: let it through, or fail it.
Injected == {NoExc} \cup NativeExceptions

Raised(e) == e # NoExc

\* isinstance(e, IOError) and isinstance(e, OSError): one class in Python 3,
\* two sibling classes under EnvironmentError in Python 2.
IsIOError(e) == e.fam = "IOError" \/ (py3 /\ e.fam = "OSError")

IsOSError(e) == e.fam = "OSError" \/ (py3 /\ e.fam = "IOError")

NoValue == [kind |-> "none"]

Return(v) == [exc |-> NoExc, value |-> v]

Raise(e) == [exc |-> e, value |-> NoValue]

\* _wrapper: an IOError that is no OSError is re-raised as OSError(errno, strerror);
\* every other exception propagates as it is.
exception_wrapper(out) ==
    IF Raised(out.exc) /\ IsIOError(out.exc)
    THEN IF ~IsOSError(out.exc)
         THEN Raise([fam |-> "OSError", errno |-> out.exc.errno])
         ELSE Raise(out.exc)
    ELSE out

\* One remote call in the log.
Call(fn, on, args, e) == [fn |-> fn, on |-> on, args |-> args, exc |-> e]

\* The handler has finished: record what it did and what the caller got.
Finish(r, cs, out) ==
    /\ phase' = "done"
    /\ req' = r
    /\ calls' = cs
    /\ result' = out

NoReq == [op |-> "none"]

-----------------------------------------------------------------------------
(* flags_to_mode *)

O_WRONLY == 1
O_RDWR == 2
O_CREAT == 64
O_EXCL == 128
O_TRUNC == 512
O_APPEND == 1024

FlagBits == {O_WRONLY, O_RDWR, O_CREAT, O_EXCL, O_TRUNC, O_APPEND}

RECURSIVE SumOf(_)
SumOf(S) == IF S = {} THEN 0 ELSE LET b == CHOOSE x \in S : TRUE IN b + SumOf(S \ {b})

\* Every combination of the six flag bits, as the integer the caller passes.
FlagValues == {SumOf(S) : S \in SUBSET FlagBits}

\* flags & bit, for a one-bit mask
And(flags, bit) == IF (flags \div bit) % 2 = 1 THEN bit ELSE 0

Truthy(n) == n # 0

Modes == {0, 420, 493}

\* A variant that tests read-write + create before read-write + append
flags_to_mode_create_before_append(flags, mode) ==
    LET base ==
          IF Truthy(And(flags, O_WRONLY)) THEN "w"
          ELSE IF Truthy(And(flags, O_RDWR)) /\ Truthy(And(flags, O_CREAT)) THEN "w+"
          ELSE IF Truthy(And(flags, O_RDWR)) /\ Truthy(And(flags, O_APPEND)) THEN "a+"
          ELSE IF Truthy(And(flags, O_APPEND)) THEN "a"
          ELSE IF Truthy(And(flags, O_RDWR)) /\ Truthy(And(flags, O_TRUNC)) THEN "w+"
          ELSE IF Truthy(And(flags, O_RDWR)) THEN "r+"
          ELSE IF Truthy(And(flags, O_CREAT)) THEN "w"
          ELSE "r"
    IN IF Truthy(And(flags, O_CREAT)) /\ Truthy(And(flags, O_EXCL))
       THEN base \o "x"
       ELSE base

\* The if/elif chain, then the exclusive marker; mode is not read
flags_to_mode(flags, mode) ==
    LET base ==
          IF Truthy(And(flags, O_WRONLY))
             \/ (Truthy(And(flags, O_WRONLY)) /\ Truthy(And(flags, O_TRUNC)))
          THEN "w"
          ELSE IF Truthy(And(flags, O_RDWR)) /\ Truthy(And(flags, O_APPEND)) THEN "a+"
          ELSE IF Truthy(And(flags, O_RDWR)) /\ Truthy(And(flags, O_CREAT)) THEN "w+"
          ELSE IF Truthy(And(flags, O_APPEND)) THEN "a"
          ELSE IF Truthy(And(flags, O_RDWR)) /\ Truthy(And(flags, O_TRUNC)) THEN "w+"
          ELSE IF Truthy(And(flags, O_RDWR)) THEN "r+"
          ELSE IF Truthy(And(flags, O_CREAT)) THEN "w"
          ELSE "r"
    IN IF Truthy(And(flags, O_CREAT)) /\ Truthy(And(flags, O_EXCL))
       THEN base \o "x"
       ELSE base

Handles == {"h"}

\* open: the mode token from flags_to_mode, then one client.open(filename, token).
open(filename, flags, mode, inj) ==
    LET paramiko_mode == flags_to_mode(flags, mode)
        out == IF Raised(inj) THEN Raise(inj)
               ELSE Return([kind |-> "handle", h |-> "h"])
    IN /\ phase = "idle"
       /\ Finish([op |-> "open", filename |-> filename, flags |-> flags, mode |-> mode],
                 <<Call("open", "client", <<filename, paramiko_mode>>, inj)>>,
                 exception_wrapper(out))
       /\ UNCHANGED <<py3, attrs, content, pos, closed, stream, lastWrite, pc, job>>

\* The hosting engine takes the handler's outcome and waits for the next request.
Respond ==
    /\ phase = "done"
    /\ phase' = "idle"
    /\ req' = NoReq
    /\ calls' = <<>>
    /\ result' = Return(NoValue)
    /\ UNCHANGED <<py3, attrs, content, pos, closed, stream, lastWrite, pc, job>>

-----------------------------------------------------------------------------
(* Remote state at construction *)

InitAttrs == [uid |-> 0, gid |-> 0, perm |-> 4, atime |-> 0, mtime |-> 0]

InitContent == <<5, 6, 7>>

NoStream == [active |-> FALSE, src |-> <<>>, listing |-> <<>>, yielded |-> <<>>,
             done |-> FALSE]

Workers == {1, 2}

\* A worker that has not entered write or read
IdleJob ==
    [op |-> "none", off |-> 0, chunk |-> <<>>, size |-> 0,
     at |-> -1, moved |-> 0, status |-> "running", data |-> <<>>]

Init ==
    /\ py3 \in BOOLEAN
    /\ phase = "idle"
    /\ req = NoReq
    /\ calls = <<>>
    /\ result = Return(NoValue)
    /\ attrs = InitAttrs
    /\ content = InitContent
    /\ pos = 0
    /\ closed = FALSE
    /\ stream = NoStream
    /\ lastWrite = "none"
    /\ pc = [w \in Workers |-> "idle"]
    /\ job = [w \in Workers |-> IdleJob]

-----------------------------------------------------------------------------
(* The remote side: a fixed namespace, one regular file, one open handle *)

\* Names a request can carry. "f" is a regular file, "l" a link to it, "b" a link
\* whose target is missing, "m" a name that does not exist; relative names are
\* resolved in the remote home directory /d.
Filenames == {"f", "l", "b", "m", "/d/f"}

AbsoluteNames == {"/d/f"}

\* parent: None and "" are both false in "if not parent"
Parents == {"", "/d", "/e/"}

EndsWithSep(p) == p \in {"/e/"}

\* os.path.join(parent, filename)
join(parent, filename) ==
    IF filename \in AbsoluteNames THEN filename
    ELSE IF EndsWithSep(parent) THEN parent \o filename
    ELSE parent \o "/" \o filename

RemoteKind(p) ==
    CASE p \in {"f", "/d/f"} -> "file"
      [] p \in {"l", "/d/l"} -> "link"
      [] p \in {"b", "/d/b"} -> "broken"
      [] OTHER -> "missing"

LinkAttrs == [size |-> 1, uid |-> 7, gid |-> 7, perm |-> 10, atime |-> 3, mtime |-> 3]

\* What the remote reports for the regular file: its size is its content's length
FileAttrs(a, c) ==
    [size |-> Len(c), uid |-> a.uid, gid |-> a.gid, perm |-> a.perm,
     atime |-> a.atime, mtime |-> a.mtime]

IsPath(x) == x \notin Handles

\* client.stat(path): follows a final symlink
client_stat(p, inj) ==
    IF Raised(inj) THEN Raise(inj)
    ELSE IF ~IsPath(p) THEN Raise([fam |-> "TypeError", errno |-> 0])
    ELSE IF RemoteKind(p) \in {"file", "link"} THEN Return(FileAttrs(attrs, content))
    ELSE Raise(IOErrorOf(ENOENT))

\* client.lstat(path): the link itself
client_lstat(p, inj) ==
    IF Raised(inj) THEN Raise(inj)
    ELSE IF ~IsPath(p) THEN Raise([fam |-> "TypeError", errno |-> 0])
    ELSE IF RemoteKind(p) = "file" THEN Return(FileAttrs(attrs, content))
    ELSE IF RemoteKind(p) \in {"link", "broken"} THEN Return(LinkAttrs)
    ELSE Raise(IOErrorOf(ENOENT))

\* handle.stat()
handle_stat(h, inj) ==
    IF Raised(inj) THEN Raise(inj) ELSE Return(FileAttrs(attrs, content))

\* A path call that fails when the name does not exist (remove, rmdir, readlink, listdir)
client_on_existing(p, inj, v) ==
    IF Raised(inj) THEN Raise(inj)
    ELSE IF RemoteKind(p) = "missing" THEN Raise(IOErrorOf(ENOENT))
    ELSE Return(v)

\* A path call that needs nothing of the name (mkdir, rename, symlink, open)
client_plain(inj, v) == IF Raised(inj) THEN Raise(inj) ELSE Return(v)

-----------------------------------------------------------------------------
(* Text and bytes *)

Str(cps) == [type |-> "str", data |-> cps]

\* str.encode() of an ASCII name: the same code units, as a byte string
encode(s) == [type |-> "bytes", data |-> s.data]

Dot == Str(<<46>>)

DotDot == Str(<<46, 46>>)

-----------------------------------------------------------------------------
(* stat *)

Null == [kind |-> "null"]

\* stat_helpers.stat_to_longname(_stat, filename): a listing line made of the
\* stat fields and the name
stat_to_longname(st, filename) == [kind |-> "longname", st |-> st, name |-> filename]

\* A variant without the try/except: the failure of client.stat is final
stat_never_falls_back(lstat, fstat, first) == FALSE

\* The default variant falls back to lstat when client.stat raised anything.
stat_falls_back(lstat, fstat, first) ==
    ~(~lstat /\ fstat) /\ ~lstat /\ Raised(first.exc)

stat(filename, parent, lstat, fstat, inj1, inj2) ==
    LET full == IF parent = "" THEN filename ELSE join(parent, filename)
        first == IF ~lstat /\ fstat THEN handle_stat(filename, inj1)
                 ELSE IF lstat THEN client_lstat(filename, inj1)
                 ELSE client_stat(full, inj1)
        firstCall == IF ~lstat /\ fstat
                     THEN Call("stat", "handle", <<filename>>, first.exc)
                     ELSE IF lstat
                     THEN Call("lstat", "client", <<filename>>, first.exc)
                     ELSE Call("stat", "client", <<full>>, first.exc)
        again == stat_falls_back(lstat, fstat, first)
        second == client_lstat(full, inj2)
        _stat == IF again THEN second ELSE first
        cs == IF again
              THEN <<firstCall, Call("lstat", "client", <<full>>, second.exc)>>
              ELSE <<firstCall>>
        longname == IF fstat THEN Null ELSE stat_to_longname(_stat.value, filename)
        out == IF Raised(_stat.exc) THEN Raise(_stat.exc)
               ELSE Return([kind |-> "attrs",
                            size |-> _stat.value.size,
                            uid |-> _stat.value.uid,
                            gid |-> _stat.value.gid,
                            perm |-> _stat.value.perm,
                            atime |-> _stat.value.atime,
                            mtime |-> _stat.value.mtime,
                            longname |-> longname])
    IN /\ phase = "idle"
       /\ Finish([op |-> "stat", filename |-> filename, parent |-> parent,
                  lstat |-> lstat, fstat |-> fstat, inj |-> <<inj1, inj2>>],
                 cs, exception_wrapper(out))
       /\ UNCHANGED <<py3, attrs, content, pos, closed, stream, lastWrite, pc, job>>

-----------------------------------------------------------------------------
(* The one-call forwarders *)

\* A handler that issues one client call and gives back its value, wrapped.
Forward(r, fn, args, remote) ==
    /\ phase = "idle"
    /\ Finish(r, <<Call(fn, "client", args, remote.exc)>>, exception_wrapper(remote))
    /\ UNCHANGED <<py3, attrs, content, pos, closed, stream, lastWrite, pc, job>>

mkdir(filename, mode, inj) ==
    Forward([op |-> "mkdir", filename |-> filename, mode |-> mode],
            "mkdir", <<filename, mode>>, client_plain(inj, NoValue))

rmdir(filename, inj) ==
    Forward([op |-> "rmdir", filename |-> filename],
            "rmdir", <<filename>>, client_on_existing(filename, inj, NoValue))

rm(filename, inj) ==
    Forward([op |-> "rm", filename |-> filename],
            "remove", <<filename>>, client_on_existing(filename, inj, NoValue))

rename(oldpath, newpath, inj) ==
    Forward([op |-> "rename", oldpath |-> oldpath, newpath |-> newpath],
            "rename", <<oldpath, newpath>>, client_on_existing(oldpath, inj, NoValue))

symlink(linkpath, targetpath, inj) ==
    Forward([op |-> "symlink", linkpath |-> linkpath, targetpath |-> targetpath],
            "symlink", <<targetpath, linkpath>>, client_plain(inj, NoValue))

\* The target of the remote links, as the text client.readlink returns
LinkTarget == Str(<<102>>)

readlink(filename, inj) ==
    LET l == IF Raised(inj) THEN Raise(inj)
             ELSE IF RemoteKind(filename) \in {"link", "broken"} THEN Return(LinkTarget)
             ELSE Raise(IOErrorOf(ENOENT))
        out == IF Raised(l.exc) THEN l ELSE Return(encode(l.value))
    IN /\ phase = "idle"
       /\ Finish([op |-> "readlink", filename |-> filename],
                 <<Call("readlink", "client", <<filename>>, l.exc)>>,
                 exception_wrapper(out))
       /\ UNCHANGED <<py3, attrs, content, pos, closed, stream, lastWrite, pc, job>>

-----------------------------------------------------------------------------
(* setstat *)

Keys == {"size", "uid", "gid", "perm", "atime", "mtime"}

\* The values a setstat request carries for the keys it holds
NewAttrs == [size |-> 1, uid |-> 5, gid |-> 6, perm |-> 9, atime |-> 7, mtime |-> 8]

\* The four categories, in the order of the four if/elif blocks
Categories == <<"truncate", "chown", "chmod", "utime">>

\* A variant whose chown block asks for any(...) of uid and gid, not all(...)
chown_on_either_key(cat, keys) ==
    CASE cat = "truncate" -> "size" \in keys
      [] cat = "chown" -> \E k \in {"uid", "gid"} : k \in keys
      [] cat = "chmod" -> "perm" \in keys
      [] cat = "utime" -> \A k \in {"atime", "mtime"} : k \in keys

\* b'size' in attrs; all(k in attrs for k in (b'uid', b'gid')); b'perm' in attrs;
\* all(k in attrs for k in (b'atime', b'mtime'))
Applies(cat, keys) ==
    CASE cat = "truncate" -> "size" \in keys
      [] cat = "chown" -> \A k \in {"uid", "gid"} : k \in keys
      [] cat = "chmod" -> "perm" \in keys
      [] cat = "utime" -> \A k \in {"atime", "mtime"} : k \in keys

\* The arguments after the target: size; uid, gid; perm; (atime, mtime)
CategoryArgs(cat) ==
    CASE cat = "truncate" -> <<NewAttrs.size>>
      [] cat = "chown" -> <<NewAttrs.uid, NewAttrs.gid>>
      [] cat = "chmod" -> <<NewAttrs.perm>>
      [] cat = "utime" -> <<NewAttrs.atime, NewAttrs.mtime>>

\* c cut or zero-filled to n bytes
Resize(c, n) == [i \in 1..n |-> IF i <= Len(c) THEN c[i] ELSE 0]

\* What a successful remote call does to the file: r holds its attrs and content
RemoteApply(r, cat, args) ==
    CASE cat = "truncate" -> [r EXCEPT !.content = Resize(r.content, args[1])]
      [] cat = "chown" -> [r EXCEPT !.attrs.uid = args[1], !.attrs.gid = args[2]]
      [] cat = "chmod" -> [r EXCEPT !.attrs.perm = args[1]]
      [] cat = "utime" -> [r EXCEPT !.attrs.atime = args[1], !.attrs.mtime = args[2]]

\* One remote attribute call on the path or on the handle
remote_setattr(target, fsetstat, inj) ==
    IF Raised(inj) THEN inj
    ELSE IF ~fsetstat /\ RemoteKind(target) \in {"missing", "broken"} THEN IOErrorOf(ENOENT)
    ELSE NoExc

\* A variant that goes on to the later blocks after a failure
setstat_keeps_going(st) == FALSE

\* An exception leaves the method: no later statement runs.
setstat_stops(st) == Raised(st.exc)

\* The four blocks from the i-th on; st is the remote file (attrs, content), the
\* calls issued so far and the exception raised so far.
RECURSIVE setstat_from(_, _, _, _, _, _)
setstat_from(i, st, filename, keys, fsetstat, inj) ==
    IF i > Len(Categories) \/ setstat_stops(st) THEN st
    ELSE IF ~Applies(Categories[i], keys)
    THEN setstat_from(i + 1, st, filename, keys, fsetstat, inj)
    ELSE LET cat == Categories[i]
             e == remote_setattr(filename, fsetstat, inj[i])
             c == Call(cat, IF fsetstat THEN "handle" ELSE "client",
                       <<filename>> \o CategoryArgs(cat), e)
             applied == IF Raised(e) THEN st
                        ELSE RemoteApply(st, cat, CategoryArgs(cat))
             next == [applied EXCEPT !.calls = Append(st.calls, c),
                                     !.exc = IF Raised(st.exc) THEN st.exc ELSE e]
         IN setstat_from(i + 1, next, filename, keys, fsetstat, inj)

setstat(filename, keys, fsetstat, inj) ==
    LET end == setstat_from(1, [attrs |-> attrs, content |-> content,
                                calls |-> <<>>, exc |-> NoExc],
                            filename, keys, fsetstat, inj)
        out == IF Raised(end.exc) THEN Raise(end.exc) ELSE Return(NoValue)
    IN /\ phase = "idle"
       /\ Finish([op |-> "setstat", filename |-> filename, keys |-> keys,
                  fsetstat |-> fsetstat, before |-> FileAttrs(attrs, content)],
                 end.calls, exception_wrapper(out))
       /\ attrs' = end.attrs
       /\ content' = end.content
       /\ UNCHANGED <<py3, pos, closed, stream, lastWrite, pc, job>>

-----------------------------------------------------------------------------
(* opendir and the generator it returns *)

\* A variant that puts '.' and '..' before the listing
opendir_pseudo_first(filename, listing, inj) ==
    LET l == client_on_existing(filename, inj, listing)
        out == IF Raised(l.exc) THEN l ELSE Return([kind |-> "generator"])
    IN /\ phase = "idle"
       /\ Finish([op |-> "opendir", filename |-> filename],
                 <<Call("listdir", "client", <<filename>>, l.exc)>>,
                 exception_wrapper(out))
       /\ stream' = IF Raised(l.exc) THEN stream
                    ELSE [active |-> TRUE, src |-> <<Dot, DotDot>> \o l.value,
                          listing |-> l.value, yielded |-> <<>>, done |-> FALSE]
       /\ UNCHANGED <<py3, attrs, content, pos, closed, lastWrite, pc, job>>

\* The generator expression evaluates its iterable, listdir(filename) + ['.', '..'],
\* when it is created; f.encode() runs as each item is taken.
opendir(filename, listing, inj) ==
    LET l == client_on_existing(filename, inj, listing)
        out == IF Raised(l.exc) THEN l ELSE Return([kind |-> "generator"])
    IN /\ phase = "idle"
       /\ Finish([op |-> "opendir", filename |-> filename],
                 <<Call("listdir", "client", <<filename>>, l.exc)>>,
                 exception_wrapper(out))
       /\ stream' = IF Raised(l.exc) THEN stream
                    ELSE [active |-> TRUE, src |-> l.value \o <<Dot, DotDot>>,
                          listing |-> l.value, yielded |-> <<>>, done |-> FALSE]
       /\ UNCHANGED <<py3, attrs, content, pos, closed, lastWrite, pc, job>>

\* next() on the generator: the next item encoded, or StopIteration for good
StreamNext ==
    /\ phase = "idle"
    /\ stream.active
    /\ stream' = IF stream.src = <<>>
                 THEN [stream EXCEPT !.done = TRUE]
                 ELSE [stream EXCEPT !.src = Tail(stream.src),
                                     !.yielded = Append(stream.yielded,
                                                        encode(Head(stream.src)))]
    /\ UNCHANGED <<py3, phase, req, calls, result, attrs, content, pos, closed, lastWrite, pc, job>>

-----------------------------------------------------------------------------
(* The remote handle: seek, read, write, close *)

Max(a, b) == IF a > b THEN a ELSE b

Min(a, b) == IF a < b THEN a ELSE b

HandleState == [content |-> content, pos |-> pos, closed |-> closed]

FileClosed == IOErrorOf(0)

\* A variant whose seek leaves the position where it was
handle_seek_ignored(h, off, inj) ==
    [exc |-> inj, h |-> h]

\* handle.seek(off): the position becomes off

handle_seek(h, off, inj) ==
    IF Raised(inj) THEN [exc |-> inj, h |-> h]
    ELSE [exc |-> NoExc, h |-> [h EXCEPT !.pos = off]]

\* chunk laid over c from byte p on; a gap before p reads as zeros
WriteAt(c, p, chunk) ==
    [i \in 1..Max(Len(c), p + Len(chunk)) |->
        IF i > p /\ i <= p + Len(chunk) THEN chunk[i - p]
        ELSE IF i <= Len(c) THEN c[i]
        ELSE 0]

\* handle.write(chunk): at the current position, which moves past the chunk
handle_write(h, chunk, inj) ==
    IF Raised(inj) THEN [exc |-> inj, h |-> h]
    ELSE IF h.closed THEN [exc |-> FileClosed, h |-> h]
    ELSE [exc |-> NoExc,
          h |-> [h EXCEPT !.content = WriteAt(h.content, h.pos, chunk),
                          !.pos = h.pos + Len(chunk)]]

\* handle.read(size): up to size bytes from the current position
handle_read(h, size, inj) ==
    IF Raised(inj) THEN [exc |-> inj, h |-> h, data |-> <<>>]
    ELSE IF h.closed THEN [exc |-> FileClosed, h |-> h, data |-> <<>>]
    ELSE LET data == SubSeq(h.content, h.pos + 1, Min(Len(h.content), h.pos + size))
         IN [exc |-> NoExc, h |-> [h EXCEPT !.pos = h.pos + Len(data)], data |-> data]

SetHandle(h) ==
    /\ content' = h.content
    /\ pos' = h.pos
    /\ closed' = h.closed

\* A variant without the try/except: the exception leaves write
write_outcome_uncaught(s, w) ==
    IF Raised(s.exc) THEN Raise(s.exc)
    ELSE IF Raised(w.exc) THEN Raise(w.exc)
    ELSE Return([kind |-> "bool", b |-> TRUE])

\* except: return False / else: return True
write_outcome(s, w) ==
    Return([kind |-> "bool", b |-> ~(Raised(s.exc) \/ Raised(w.exc))])

\* write: try seek, write; any exception gives False, none gives True
write(handle, off, chunk, inj1, inj2) ==
    LET s == handle_seek(HandleState, off, inj1)
        w == handle_write(s.h, chunk, inj2)
        cs == IF Raised(s.exc)
              THEN <<Call("seek", "handle", <<off>>, s.exc)>>
              ELSE <<Call("seek", "handle", <<off>>, s.exc),
                     Call("write", "handle", <<chunk>>, w.exc)>>
        failed == Raised(s.exc) \/ Raised(w.exc)
    IN /\ phase = "idle"
       /\ Finish([op |-> "write", off |-> off, chunk |-> chunk, before |-> HandleState],
                 cs, write_outcome(s, w))
       /\ SetHandle(IF Raised(s.exc) THEN s.h ELSE w.h)
       /\ lastWrite' = IF failed THEN "false" ELSE "true"
       /\ UNCHANGED <<py3, attrs, stream, pc, job>>

\* read: seek, then read; no wrapper, an exception leaves as it was raised
read(handle, off, size, inj1, inj2) ==
    LET s == handle_seek(HandleState, off, inj1)
        r == handle_read(s.h, size, inj2)
        cs == IF Raised(s.exc)
              THEN <<Call("seek", "handle", <<off>>, s.exc)>>
              ELSE <<Call("seek", "handle", <<off>>, s.exc),
                     Call("read", "handle", <<size>>, r.exc)>>
        out == IF Raised(s.exc) THEN Raise(s.exc)
               ELSE IF Raised(r.exc) THEN Raise(r.exc)
               ELSE Return([kind |-> "data", data |-> r.data])
    IN /\ phase = "idle"
       /\ Finish([op |-> "read", off |-> off, size |-> size, before |-> HandleState],
                 cs, out)
       /\ SetHandle(IF Raised(s.exc) THEN s.h ELSE r.h)
       /\ UNCHANGED <<py3, attrs, stream, lastWrite, pc, job>>

\* close: handle.close(), wrapped
close(handle, inj) ==
    LET out == IF Raised(inj) THEN Raise(inj) ELSE Return(NoValue)
    IN /\ phase = "idle"
       /\ Finish([op |-> "close", before |-> HandleState],
                 <<Call("close", "handle", <<handle>>, inj)>>,
                 exception_wrapper(out))
       /\ closed' = IF Raised(inj) THEN closed ELSE TRUE
       /\ UNCHANGED <<py3, attrs, content, pos, stream, lastWrite, pc, job>>

-----------------------------------------------------------------------------
(* The flag translator, driven through open *)

OpenAnyFlags ==
    \E flags \in FlagValues, mode \in Modes, inj \in Injected :
        open("f", flags, mode, inj)

NextFlags == OpenAnyFlags \/ Respond

SpecFlags == Init /\ [][NextFlags]_vars

\* The ordered table of the flag translator: the bits a rule needs, and its token.
ModeRules ==
    << [need |-> {O_WRONLY}, token |-> "w"],
       [need |-> {O_RDWR, O_APPEND}, token |-> "a+"],
       [need |-> {O_RDWR, O_CREAT}, token |-> "w+"],
       [need |-> {O_APPEND}, token |-> "a"],
       [need |-> {O_RDWR, O_TRUNC}, token |-> "w+"],
       [need |-> {O_RDWR}, token |-> "r+"],
       [need |-> {O_CREAT}, token |-> "w"],
       [need |-> {}, token |-> "r"] >>

BitsSet(flags) == {b \in FlagBits : (flags \div b) % 2 = 1}

FirstRule(flags) ==
    CHOOSE i \in 1..Len(ModeRules) :
        /\ ModeRules[i].need \subseteq BitsSet(flags)
        /\ \A j \in 1..(i - 1) : ~(ModeRules[j].need \subseteq BitsSet(flags))

TableToken(flags) ==
    IF {O_CREAT, O_EXCL} \subseteq BitsSet(flags)
    THEN ModeRules[FirstRule(flags)].token \o "x"
    ELSE ModeRules[FirstRule(flags)].token

\* C2: for every combination of the six flag bits and every mode argument, the
\* token flags_to_mode gives (the one open passes to the remote open) is the
\* token of the first matching rule of the ordered table, with "x" appended
\* exactly when create and exclusive are both set; the mode argument plays no part.
C2_FlagTable ==
    (phase = "done" /\ req.op = "open") =>
        /\ Len(calls) = 1
        /\ calls[1].fn = "open"
        /\ calls[1].args[2] = TableToken(req.flags)

\* A read-write + append + create + exclusive open with a non-zero mode: rules 2
\* and 3 both match, rule 2 wins, and the exclusive marker is appended.
C2_Witness ==
    /\ phase = "done"
    /\ req.op = "open"
    /\ req.flags = O_RDWR + O_APPEND + O_CREAT + O_EXCL
    /\ req.mode = 420
    /\ calls[1].args[2] = "a+x"

-----------------------------------------------------------------------------
(* Two workers inside write and read at once: no lock, one shared handle *)

MaxOff == 2

Offsets == 0..MaxOff

Chunks == {<<1>>, <<2>>, <<2, 1>>}

Sizes == {1, 2}

WriteJob(off, chunk) ==
    [op |-> "write", off |-> off, chunk |-> chunk, size |-> 0,
     at |-> -1, moved |-> 0, status |-> "running", data |-> <<>>]

ReadJob(off, size) ==
    [op |-> "read", off |-> off, chunk |-> <<>>, size |-> size,
     at |-> -1, moved |-> 0, status |-> "running", data |-> <<>>]

\* A worker enters write(handle, off, chunk) or read(handle, off, size).
enter(w, j) ==
    /\ pc[w] = "idle"
    /\ pc' = [pc EXCEPT ![w] = "seek"]
    /\ job' = [job EXCEPT ![w] = j]
    /\ UNCHANGED <<py3, phase, req, calls, result, attrs, content, pos, closed,
                   stream, lastWrite>>

\* handle.seek(off) of write: an exception makes write return False
write_seek(w, inj) ==
    LET s == handle_seek(HandleState, job[w].off, inj)
    IN /\ pc[w] = "seek"
       /\ job[w].op = "write"
       /\ SetHandle(s.h)
       /\ pc' = [pc EXCEPT ![w] = IF Raised(s.exc) THEN "done" ELSE "transfer"]
       /\ job' = [job EXCEPT ![w].status = IF Raised(s.exc) THEN "false" ELSE @]
       /\ UNCHANGED <<py3, phase, req, calls, result, attrs, stream, lastWrite>>

\* handle.write(chunk) of write, at wherever the handle stands now
write_chunk(w, inj) ==
    LET r == handle_write(HandleState, job[w].chunk, inj)
    IN /\ pc[w] = "transfer"
       /\ job[w].op = "write"
       /\ SetHandle(r.h)
       /\ pc' = [pc EXCEPT ![w] = "done"]
       /\ job' = [job EXCEPT ![w].status = IF Raised(r.exc) THEN "false" ELSE "true",
                             ![w].at = pos,
                             ![w].moved = r.h.pos - pos]
       /\ UNCHANGED <<py3, phase, req, calls, result, attrs, stream, lastWrite>>

\* handle.seek(off) of read: an exception leaves read
read_seek(w, inj) ==
    LET s == handle_seek(HandleState, job[w].off, inj)
    IN /\ pc[w] = "seek"
       /\ job[w].op = "read"
       /\ SetHandle(s.h)
       /\ pc' = [pc EXCEPT ![w] = IF Raised(s.exc) THEN "done" ELSE "transfer"]
       /\ job' = [job EXCEPT ![w].status = IF Raised(s.exc) THEN "raised" ELSE @]
       /\ UNCHANGED <<py3, phase, req, calls, result, attrs, stream, lastWrite>>

\* handle.read(size) of read, from wherever the handle stands now
read_bytes(w, inj) ==
    LET r == handle_read(HandleState, job[w].size, inj)
    IN /\ pc[w] = "transfer"
       /\ job[w].op = "read"
       /\ SetHandle(r.h)
       /\ pc' = [pc EXCEPT ![w] = "done"]
       /\ job' = [job EXCEPT ![w].status = IF Raised(r.exc) THEN "raised" ELSE "returned",
                             ![w].at = pos,
                             ![w].moved = r.h.pos - pos,
                             ![w].data = r.data]
       /\ UNCHANGED <<py3, phase, req, calls, result, attrs, stream, lastWrite>>

EnterWrite == \E w \in Workers, off \in Offsets, chunk \in Chunks : enter(w, WriteJob(off, chunk))

EnterRead == \E w \in Workers, off \in Offsets, size \in Sizes : enter(w, ReadJob(off, size))

WriteSeek == \E w \in Workers, inj \in Injected : write_seek(w, inj)

WriteChunk == \E w \in Workers, inj \in Injected : write_chunk(w, inj)

ReadSeek == \E w \in Workers, inj \in Injected : read_seek(w, inj)

ReadBytes == \E w \in Workers, inj \in Injected : read_bytes(w, inj)

NextConc == EnterWrite \/ EnterRead \/ WriteSeek \/ WriteChunk \/ ReadSeek \/ ReadBytes

SpecConc == Init /\ [][NextConc]_vars

-----------------------------------------------------------------------------
(* One request at a time on the handle: write, read, close *)

Write == \E off \in Offsets, chunk \in Chunks, inj1 \in Injected, inj2 \in Injected :
             write("h", off, chunk, inj1, inj2)

Read == \E off \in Offsets, size \in Sizes, inj1 \in Injected, inj2 \in Injected :
            read("h", off, size, inj1, inj2)

Close == \E inj \in Injected : close("h", inj)

NextHandle == Write \/ Read \/ Close \/ Respond

SpecHandle == Init /\ [][NextHandle]_vars

-----------------------------------------------------------------------------
(* setstat and fsetstat with every set of keys *)

\* The environment fails at most one of the four remote calls of a request: the
\* method stops at the first exception, so no second failure can be met.
OneFailure ==
    {[i \in 1..Len(Categories) |-> IF i = k THEN e ELSE NoExc] :
        k \in 1..Len(Categories), e \in Injected}

SetstatPath ==
    \E filename \in {"f", "m"}, keys \in SUBSET Keys, inj \in OneFailure :
        setstat(filename, keys, FALSE, inj)

SetstatHandle ==
    \E keys \in SUBSET Keys, inj \in OneFailure :
        setstat("h", keys, TRUE, inj)

NextSetstat == SetstatPath \/ SetstatHandle \/ Respond

SpecSetstat == Init /\ [][NextSetstat]_vars

-----------------------------------------------------------------------------
(* opendir and the iteration of its stream *)

MaxListing == 2

Names == {Str(<<97>>), Str(<<98>>), Dot, DotDot}

RECURSIVE SeqsUpTo(_, _)
SeqsUpTo(S, n) ==
    IF n = 0 THEN {<<>>}
    ELSE LET shorter == SeqsUpTo(S, n - 1)
         IN shorter \cup {Append(q, x) : q \in shorter, x \in S}

Listings == SeqsUpTo(Names, MaxListing)

Opendir == \E filename \in {"f", "m"}, listing \in Listings, inj \in Injected :
               opendir(filename, listing, inj)

NextDir == Opendir \/ StreamNext \/ Respond

SpecDir == Init /\ [][NextDir]_vars

-----------------------------------------------------------------------------
(* Every forwarded handler but write *)

Stat ==
    \E filename \in Filenames, parent \in Parents, lstat \in BOOLEAN,
       inj1 \in Injected, inj2 \in Injected :
        stat(filename, parent, lstat, FALSE, inj1, inj2)

Fstat ==
    \E lstat \in BOOLEAN, inj1 \in Injected, inj2 \in Injected :
        stat("h", "", lstat, TRUE, inj1, inj2)

SetPerm ==
    \E filename \in {"f", "m"}, inj \in OneFailure :
        setstat(filename, {"perm"}, FALSE, inj)

ListDir == \E filename \in {"f", "m"}, inj \in Injected :
               opendir(filename, <<Str(<<97>>)>>, inj)

Open == \E filename \in {"f", "m"}, flags \in {0, O_WRONLY, O_RDWR + O_CREAT},
           inj \in Injected :
            open(filename, flags, 420, inj)

Mkdir == \E filename \in {"f", "m"}, inj \in Injected : mkdir(filename, 493, inj)

Rmdir == \E filename \in {"f", "m"}, inj \in Injected : rmdir(filename, inj)

Rm == \E filename \in Filenames, inj \in Injected : rm(filename, inj)

Rename == \E oldpath \in {"f", "m"}, newpath \in {"m"}, inj \in Injected :
              rename(oldpath, newpath, inj)

Symlink == \E linkpath \in {"m"}, targetpath \in {"f"}, inj \in Injected :
               symlink(linkpath, targetpath, inj)

Readlink == \E filename \in Filenames, inj \in Injected : readlink(filename, inj)

Next ==
    \/ Stat \/ Fstat \/ SetPerm \/ ListDir \/ Open \/ Mkdir \/ Rmdir \/ Rm
    \/ Rename \/ Symlink \/ Readlink \/ Read \/ Close \/ Respond

Spec == Init /\ [][Next]_vars

-----------------------------------------------------------------------------
(* Properties *)

Done(op) == phase = "done" /\ req.op = op

NoCallFailed == \A i \in 1..Len(calls) : ~Raised(calls[i].exc)

Returned == ~Raised(result.exc)

\* C1: for every forwarded operation other than write, a remote failure reaches
\* the caller as an error of the OSError family with the errno of the native
\* exception, whatever family the remote client raised.
C1_EveryFailureNormalized ==
    (/\ phase = "done"
     /\ req.op \notin {"none", "write"}
     /\ Len(calls) > 0
     /\ Raised(calls[Len(calls)].exc))
    => /\ Raised(result.exc)
       /\ IsOSError(result.exc)
       /\ result.exc.errno = calls[Len(calls)].exc.errno

\* The path the default stat variant must query
ExpectedPath(parent, filename) ==
    CASE parent = "" -> filename
      [] parent # "" /\ filename = "/d/f" -> "/d/f"
      [] parent = "/d" /\ filename # "/d/f" -> "/d/" \o filename
      [] parent = "/e/" /\ filename # "/d/f" -> "/e/" \o filename

SameAttrs(v, a) ==
    /\ v.size = a.size
    /\ v.uid = a.uid
    /\ v.gid = a.gid
    /\ v.perm = a.perm
    /\ v.atime = a.atime
    /\ v.mtime = a.mtime

\* C3: the default stat variant first issues a symlink-following stat on the path
\* (joined with parent when given); when that call fails for any reason it issues
\* an lstat on the same path and returns the link's attributes; an error reaches
\* the caller only when the lstat fails too. A link whose target is missing gives
\* the link's attributes.
C3_StatFallsBackToLstat ==
    (Done("stat") /\ ~req.lstat /\ ~req.fstat) =>
        LET path == ExpectedPath(req.parent, req.filename)
        IN /\ calls[1].fn = "stat" /\ calls[1].on = "client" /\ calls[1].args = <<path>>
           /\ ~Raised(calls[1].exc) => (Len(calls) = 1 /\ Returned)
           /\ Raised(calls[1].exc) =>
                /\ Len(calls) = 2
                /\ calls[2].fn = "lstat" /\ calls[2].on = "client"
                /\ calls[2].args = <<path>>
                /\ Returned <=> ~Raised(calls[2].exc)
                /\ (Returned /\ RemoteKind(path) \in {"link", "broken"})
                      => SameAttrs(result.value, LinkAttrs)
           /\ (RemoteKind(path) = "broken" /\ req.inj = <<NoExc, NoExc>>)
                => (Returned /\ SameAttrs(result.value, LinkAttrs))

\* stat("b", parent "/d"): the stat of the dangling link fails with ENOENT, the
\* lstat answers, and the caller gets the link's attributes.
C3_Witness ==
    /\ Done("stat") /\ ~req.lstat /\ ~req.fstat
    /\ req.filename = "b" /\ req.parent = "/d"
    /\ Len(calls) = 2
    /\ calls[1].exc = IOErrorOf(ENOENT)
    /\ calls[2].args = <<"/d/b">>
    /\ Returned
    /\ result.value.perm = LinkAttrs.perm

\* C8: with the fstat flag set (whatever the lstat flag) the operand is a handle
\* queried directly, no path-based stat or lstat is issued and longname is null;
\* without the fstat flag longname is not null; with the lstat flag alone only an
\* lstat is issued and its failure is raised without fallback.
C8_FstatQueriesTheHandle ==
    Done("stat") =>
        /\ req.fstat =>
             /\ \A i \in 1..Len(calls) : calls[i].on = "handle" /\ calls[i].fn = "stat"
             /\ Returned => result.value.longname = Null
        /\ (~req.fstat /\ Returned) => result.value.longname # Null
        /\ (req.lstat /\ ~req.fstat) =>
             /\ Len(calls) = 1
             /\ calls[1].fn = "lstat" /\ calls[1].on = "client"
             /\ Raised(calls[1].exc) => Raised(result.exc)

-----------------------------------------------------------------------------

\* The remote calls the keys of a request ask for, in order
ExpectedCalls(keys) ==
    (IF "size" \in keys THEN <<"truncate">> ELSE <<>>)
    \o (IF "uid" \in keys /\ "gid" \in keys THEN <<"chown">> ELSE <<>>)
    \o (IF "perm" \in keys THEN <<"chmod">> ELSE <<>>)
    \o (IF "atime" \in keys /\ "mtime" \in keys THEN <<"utime">> ELSE <<>>)

\* The attributes those calls may change
Touched(keys) ==
    (IF "size" \in keys THEN {"size"} ELSE {})
    \cup (IF "uid" \in keys /\ "gid" \in keys THEN {"uid", "gid"} ELSE {})
    \cup (IF "perm" \in keys THEN {"perm"} ELSE {})
    \cup (IF "atime" \in keys /\ "mtime" \in keys THEN {"atime", "mtime"} ELSE {})

IssuedCalls == [i \in 1..Len(calls) |-> calls[i].fn]

UntouchedKept ==
    \A k \in Keys \ Touched(req.keys) : FileAttrs(attrs, content)[k] = req.before[k]

OneForm ==
    \A i \in 1..Len(calls) :
        /\ calls[i].on = (IF req.fsetstat THEN "handle" ELSE "client")
        /\ calls[i].args[1] = req.filename

\* C4 as stated: for every set of keys, the remote calls issued are exactly
\* truncate iff size, chown iff uid and gid, chmod iff perm, utime iff atime and
\* mtime; attributes outside the applied categories are unchanged; all calls
\* target the path form or the handle form according to the variant.
C4_ExactlyThePresentCategories ==
    Done("setstat") =>
        /\ IssuedCalls = ExpectedCalls(req.keys)
        /\ UntouchedKept
        /\ OneForm

\* C4 as amended: when no remote call of the setstat fails, the calls issued are
\* exactly those of the present categories; when one fails, they are those of
\* the present categories up to and including the failing one. In both cases the
\* attributes outside the present categories are unchanged and every call
\* targets the form of the variant.
C4_PresentCategoriesUnlessFailed ==
    Done("setstat") =>
        LET want == ExpectedCalls(req.keys)
        IN /\ Len(calls) <= Len(want)
           /\ IssuedCalls = SubSeq(want, 1, Len(calls))
           /\ NoCallFailed => Len(calls) = Len(want)
           /\ ~NoCallFailed => Raised(calls[Len(calls)].exc)
           /\ \A i \in 1..(Len(calls) - 1) : ~Raised(calls[i].exc)
           /\ UntouchedKept
           /\ OneForm

\* setstat with uid and perm but no gid, nothing failing: chmod is the only call,
\* the owner is as before, the permission is the new one.
C4_Witness ==
    /\ Done("setstat")
    /\ req.keys = {"uid", "perm"}
    /\ NoCallFailed
    /\ Returned
    /\ IssuedCalls = <<"chmod">>
    /\ attrs.uid = req.before.uid
    /\ attrs.perm = NewAttrs.perm

\* The attributes one remote call sets
KeysOf(fn) ==
    CASE fn = "truncate" -> {"size"}
      [] fn = "chown" -> {"uid", "gid"}
      [] fn = "chmod" -> {"perm"}
      [] fn = "utime" -> {"atime", "mtime"}

\* C9: the present categories are applied in the order truncate, chown, chmod,
\* utime; the first failing call is the last call issued; what the earlier calls
\* changed stays changed; and the failure reaches the caller as an OSError.
C9_AbortsAtFirstFailure ==
    Done("setstat") =>
        LET want == ExpectedCalls(req.keys)
            now == FileAttrs(attrs, content)
        IN /\ Len(calls) <= Len(want)
           /\ IssuedCalls = SubSeq(want, 1, Len(calls))
           /\ \A i \in 1..(Len(calls) - 1) : ~Raised(calls[i].exc)
           /\ \A i \in 1..Len(calls) :
                ~Raised(calls[i].exc) =>
                    \A k \in KeysOf(calls[i].fn) : now[k] = NewAttrs[k]
           /\ ~NoCallFailed => (Raised(result.exc) /\ IsOSError(result.exc))

-----------------------------------------------------------------------------

\* C5: write returns True when the seek and the write both succeed and False,
\* raising nothing, when either fails for any reason; write never closes the
\* handle, and a close that follows, also after a failed write, is forwarded to
\* the remote handle.
C5_WriteReportsFailureAsFalse ==
    /\ Done("write") =>
         /\ Returned
         /\ result.value.kind = "bool"
         /\ result.value.b <=> NoCallFailed
         /\ \A i \in 1..Len(calls) : calls[i].fn # "close"
         /\ closed = req.before.closed
    /\ Done("close") =>
         /\ Len(calls) = 1
         /\ calls[1].fn = "close" /\ calls[1].on = "handle"
         /\ ~Raised(calls[1].exc) => closed

\* The latest write returned False, the handle was still open, and the close
\* that followed reached the remote handle.
C5_Witness ==
    /\ Done("close")
    /\ lastWrite = "false"
    /\ ~req.before.closed
    /\ calls[1].fn = "close"
    /\ closed

\* C7: with one request at a time on the handle, a successful write(h, off,
\* chunk) leaves chunk at bytes off.. of the file and changes no other byte that
\* existed, and a read(h, off, size) returns the bytes from off, whatever
\* position earlier reads and writes left the handle at.
C7_OffsetsAreAbsolute ==
    /\ (Done("write") /\ result.value.b) =>
         /\ Len(content) >= req.off + Len(req.chunk)
         /\ \A i \in 1..Len(req.chunk) : content[req.off + i] = req.chunk[i]
         /\ \A i \in 1..Len(req.before.content) :
                (i <= req.off \/ i > req.off + Len(req.chunk))
                    => content[i] = req.before.content[i]
    /\ (Done("read") /\ Returned) =>
         result.value.data =
             [i \in 1..(Min(Len(req.before.content), req.off + req.size) - req.off)
                 |-> req.before.content[req.off + i]]

\* A write of <<1>> at offset 1 left the handle at position 2; a second write,
\* of <<2>> at offset 1 again, replaced that byte instead of following it.
C7_Witness ==
    /\ Done("write")
    /\ result.value.b
    /\ req.off = 1
    /\ req.chunk = <<2>>
    /\ req.before.pos = 2
    /\ req.before.content[2] = 1
    /\ content[2] = 2
    /\ Len(content) = Len(req.before.content)

-----------------------------------------------------------------------------

\* What a stream over a listing must yield, in order
ExpectedEntries(listing) ==
    [i \in 1..(Len(listing) + 2) |->
        [type |-> "bytes",
         data |-> IF i <= Len(listing) THEN listing[i].data
                  ELSE IF i = Len(listing) + 1 THEN <<46>>
                  ELSE <<46, 46>>]]

C6_StreamState ==
    /\ Done("opendir") =>
         /\ Len(calls) = 1
         /\ calls[1].fn = "listdir"
         /\ Raised(calls[1].exc) <=> Raised(result.exc)
         /\ Returned => (stream.active /\ stream.yielded = <<>>)
    /\ stream.active =>
         LET want == ExpectedEntries(stream.listing)
         IN /\ Len(stream.yielded) <= Len(want)
            /\ stream.yielded = SubSeq(want, 1, Len(stream.yielded))
            /\ stream.done => stream.yielded = want

\* C6: opendir issues exactly one listing call, inside the opendir call, so a
\* listing failure comes out of opendir; the stream yields the listing's
\* entries in order, then "." and "..", each as bytes, also when the listing
\* holds them already or is empty; once exhausted it yields nothing more; and
\* taking an item issues no remote call.
C6_ListingThenDotAndDotDot ==
    /\ []C6_StreamState
    /\ [][(stream.active /\ Len(stream'.yielded) > Len(stream.yielded))
            => (calls' = calls /\ calls = <<>>)]_vars

\* A listing that already holds "." was iterated to the end: it gave ".", "a",
\* then the two appended entries.
C6_Witness ==
    /\ stream.active
    /\ stream.done
    /\ stream.listing = <<Dot, Str(<<97>>)>>
    /\ Len(stream.yielded) = 4
    /\ stream.yielded[1].data = <<46>>
    /\ stream.yielded[3].data = <<46>>
    /\ stream.yielded[4] = [type |-> "bytes", data |-> <<46, 46>>]

-----------------------------------------------------------------------------

Other(w) == CHOOSE v \in Workers : v # w

\* C10: nothing but the shared handle position ties a transfer to its own
\* reposition. A call that succeeded acted at its own offset, or at a position
\* the other worker's call gave the handle: that call's offset, or the end of
\* its transfer. (The interleaving itself is C10_Witness.)
C10_TransferActsAtSharedPosition ==
    \A w \in Workers :
        (pc[w] = "done" /\ job[w].status \in {"true", "returned"}) =>
            \/ job[w].at = job[w].off
            \/ LET v == Other(w)
               IN /\ pc[v] \in {"transfer", "done"}
                  /\ \/ job[w].at = job[v].off
                     \/ job[v].at >= 0 /\ job[w].at = job[v].at + job[v].moved

\* Worker 1 wrote at the offset worker 2 passed, not at its own, and both
\* write calls returned True.
C10_Witness ==
    /\ pc[1] = "done" /\ pc[2] = "done"
    /\ job[1].op = "write" /\ job[2].op = "write"
    /\ job[1].status = "true" /\ job[2].status = "true"
    /\ job[1].off # job[2].off
    /\ job[1].at = job[2].off

====
